---- MODULE Spec2Model ----
(***************************************************************************)
(* Model of the nexus-rs event API (src/nexus/src/api/event/mod.rs): the   *)
(* typed Event handle, the erasure of typed callbacks, the trampolines     *)
(* generated by event_consume!, the raw subscribe / unsubscribe / raise    *)
(* functions and the Revertible they return, run against a host event bus  *)
(* that keeps a subscriber table keyed by identifier and callback pointer. *)
(***************************************************************************)
EXTENDS Integers, Sequences, FiniteSets, TLC

VARIABLES
    initialized,  \* the host has stored the capability table (AddonApi)
    unloaded,     \* the addon has been unloaded
    folded,       \* the build gave identical trampolines one address
    registry,     \* host subscriber table: sequence of subscriber entries
    actions,      \* the Revertibles returned by subscribe, in order of creation
    last,         \* the last operation: name, arguments, outcome
    hostCalls,    \* host entry points called by the last operation, in order
    invoked,      \* trampoline invocations made during the last operation
    tally,        \* how many calls of each kind have been made so far
    inflight      \* trampoline invocations running on host threads

vars == <<initialized, unloaded, folded, registry, actions, last, hostCalls, invoked,
          tally, inflight>>

(***************************************************************************)
(* Bounds and input sets.                                                  *)
(***************************************************************************)
\* Number of Revertibles created in one run.
MaxActions == 2

\* Identifier texts as byte sequences: "A", "B" and "A\0B".
Identifiers == { <<65>>, <<66>>, <<65, 0, 66>> }

\* Payloads handed to a raise: a value together with its static type T.
Payloads == { [ty |-> "i32", val |-> 42], [ty |-> "i32", val |-> 43],
              [ty |-> "unit", val |-> 0] }

\* Payloads of the targeted raises and of the raises other parties make.
TargetedPayloads == { [ty |-> "i32", val |-> 42] }

\* What a read of the memory at a value's address yields at another type.
Garbage(mem) == IF mem.ty = "i32" THEN { mem.val } ELSE { 42, 7 }

\* Addon signatures known to the host: this addon's and another addon's.
Signatures == { 1234, 5678 }

\* This addon, as the host knows it.
Addon == [signature |-> 1234]

\* event_consume! expansion sites of the addon.
Sites == { 1, 2, 3 }

Range(s) == { s[i] : i \in 1..Len(s) }

(***************************************************************************)
(* Identifier conversion.                                                  *)
(***************************************************************************)
\* util::str_to_c(text, msg): CString::new(text).expect(msg); the conversion
\* appends the terminating null and panics on an embedded null byte.
str_to_c(identifier) ==
    IF 0 \in Range(identifier)
    THEN [ok |-> FALSE, c |-> <<>>]
    ELSE [ok |-> TRUE, c |-> Append(identifier, 0)]

\* identifier.as_ptr() as the host reads it: the bytes before the first null.
RECURSIVE CStrRead(_)
CStrRead(c) ==
    IF c = <<>> \/ Head(c) = 0 THEN <<>>
    ELSE <<Head(c)>> \o CStrRead(Tail(c))

(***************************************************************************)
(* Callbacks, trampolines and erasure.                                     *)
(***************************************************************************)
\* Payload type $ty of the trampoline generated at a site.
SiteTy(site) == "i32"

\* The user callback __CALLBACK wrapped at a site: sites 1 and 3 wrap the same
\* function, site 2 wraps one that unwraps its payload.
SiteCallback(site) == IF site = 2 THEN "unwrap" ELSE "record"

\* Address of the function item generated at a site. Function addresses are
\* not guaranteed unique: a build may give functions with identical bodies a
\* single address.
SameCode(s, t) == SiteTy(s) = SiteTy(t) /\ SiteCallback(s) = SiteCallback(t)

FnAddr(site) ==
    IF folded
    THEN CHOOSE s \in Sites : SameCode(s, site) /\ \A t \in Sites : SameCode(t, site) => s <= t
    ELSE site

\* event_consume!(<$ty> $callback): the RawEventConsume<$ty> function pointer.
\* addr is the pointer value; item names the function item it was taken from
\* and is invisible to pointer comparison.
event_consume(site) == [addr |-> FnAddr(site), arg |-> SiteTy(site), item |-> site]

\* Faulty variant of transmute: the erased pointer is the address of a
\* forwarding function generated for the conversion.
transmute_Forwarding(callback) ==
    [addr |-> callback.addr + Cardinality(Sites), arg |-> "c_void", item |-> callback.item]

\* mem::transmute::<RawEventConsume<T>, RawEventConsumeUnknown>: the pointer
\* value is kept, the parameter type becomes c_void.
transmute(callback) == [addr |-> callback.addr, arg |-> "c_void", item |-> callback.item]

\* Comparison of two function pointers: by pointer value.
SamePointer(f, g) == f.addr = g.addr

\* Option<&T>
None == <<>>
Some(v) == <<v>>

\* The site whose code sits at a function address.
CodeAt(addr) == CHOOSE s \in Sites : FnAddr(s) = addr

\* Data pointers: an address (0 is null) and the static pointee type.
NullPtr == [addr |-> 0, pointee |-> "c_void"]

\* Faulty variant of cast: the pointer handed to the host is null.
cast_Null(data) == [addr |-> 0, pointee |-> "c_void"]

\* `let data: *const _ = event_data`: the address of the referenced value.
address_of(payload) == [addr |-> 1, pointee |-> payload.ty]

\* data.cast(): the same address as *const c_void.
cast(data) == [addr |-> data.addr, pointee |-> "c_void"]

\* Faulty variant of as_ref: the pointer is dereferenced without the null check.
as_ref_Unchecked(data, ty, mem, garbage) ==
    IF data.addr # 0 /\ mem.ty = ty THEN <<mem.val>> ELSE <<garbage>>

\* data.as_ref() in a trampoline for $ty: null gives None; otherwise the
\* pointee is read as $ty. mem is the value at the address with its type,
\* garbage what a read at another type yields.
as_ref(data, ty, mem, garbage) ==
    IF data.addr = 0 THEN None
    ELSE IF ty = "unit" THEN Some(0)
    ELSE IF mem.ty = ty THEN Some(mem.val)
    ELSE Some(garbage)

\* The user callback body: "record" returns, "unwrap" panics on None.
CallbackBody(name, arg) ==
    IF name = "unwrap" /\ arg = None THEN "panicked" ELSE "returned"

\* Faulty variant of the trampoline: a panic of the callback is caught inside it.
event_callback_wrapper_Catching(site, data, mem, garbage) ==
    LET arg == as_ref(data, SiteTy(site), mem, garbage)
    IN  [callback |-> FnAddr(site),
         data |-> data,
         arg |-> arg,
         panicked |-> CallbackBody(SiteCallback(site), arg) = "panicked",
         result |-> "returned"]

\* extern "C-unwind" fn __event_callback_wrapper(data): calls __CALLBACK with
\* data.as_ref(); nothing catches a panic of the callback, which unwinds out.
event_callback_wrapper(site, data, mem, garbage) ==
    LET arg == as_ref(data, SiteTy(site), mem, garbage)
    IN  [callback |-> FnAddr(site),
         data |-> data,
         arg |-> arg,
         panicked |-> CallbackBody(SiteCallback(site), arg) = "panicked",
         result |-> IF CallbackBody(SiteCallback(site), arg) = "panicked"
                    THEN "unwound" ELSE "returned"]

(***************************************************************************)
(* The host event bus behind the capability table.                         *)
(***************************************************************************)
\* One host entry-point call, as the host receives it.
HostCall(fn, cid, callback, data, signature) ==
    [fn |-> fn, identifier |-> cid, callback |-> callback, data |-> data,
     signature |-> signature]

\* host subscribe(identifier, callback): a new entry in the subscriber table,
\* tagged with the signature of the addon that owns the callback.
HostSubscribe(reg, cid, callback) ==
    Append(reg, [identifier |-> CStrRead(cid), callback |-> callback,
                 signature |-> Addon.signature])

\* host unsubscribe(identifier, callback): the host finds subscribers by the
\* callback pointer value and drops the entries of that identifier that match.
HostUnsubscribe(reg, cid, callback) ==
    SelectSeq(reg, LAMBDA e : ~(e.identifier = CStrRead(cid) /\ SamePointer(e.callback, callback)))

\* Faulty variant of HostUnsubscribeWaits: the host holds the call back until
\* the running invocations of the callback on that identifier have returned.
HostUnsubscribeWaits_Draining(running, cid, callback) ==
    \E k \in DOMAIN running :
        running[k].identifier = CStrRead(cid) /\ running[k].callback = callback.addr

\* Whether the host holds an unsubscribe call back while trampolines run on
\* its threads: it does not, the removal is immediate.
HostUnsubscribeWaits(running, cid, callback) == FALSE

\* The entries a raise on an identifier addresses: all of them, or those of
\* the addressed signature.
Subscribers(reg, cid, target) ==
    SelectSeq(reg, LAMBDA e : /\ e.identifier = CStrRead(cid)
                              /\ (target = None \/ target = Some(e.signature)))

\* The host calls each addressed subscriber's callback pointer in turn with
\* the data pointer; a callback that unwinds ends the dispatch.
RECURSIVE Deliver(_, _, _, _)
Deliver(subs, data, mem, garbage) ==
    IF subs = <<>> THEN <<>>
    ELSE LET r == event_callback_wrapper(CodeAt(Head(subs).callback.addr), data, mem, garbage)
         IN  IF r.result = "unwound" THEN <<r>>
             ELSE <<r>> \o Deliver(Tail(subs), data, mem, garbage)

HostRaise(reg, cid, target, data, mem, garbage) ==
    Deliver(Subscribers(reg, cid, target), data, mem, garbage)

RaiseFns == { "raise", "raise_notification", "raise_targeted", "raise_notification_targeted" }

\* The subscriber table after the host has served a call.
HostApply(reg, call) ==
    IF call.fn = "subscribe" THEN HostSubscribe(reg, call.identifier, call.callback[1])
    ELSE IF call.fn = "unsubscribe" THEN HostUnsubscribe(reg, call.identifier, call.callback[1])
    ELSE reg

\* The callbacks the host invokes while serving a call: a notification hands
\* the subscribers a null pointer.
HostInvoke(reg, call, mem, garbage) ==
    IF call.fn \in RaiseFns
    THEN HostRaise(reg, call.identifier, call.signature,
                   IF call.data = None THEN NullPtr ELSE call.data[1], mem, garbage)
    ELSE <<>>

\* Whether a dispatch ran to its end or was ended by an unwinding callback.
Outcome(inv) ==
    IF inv # <<>> /\ inv[Len(inv)].result = "unwound" THEN "unwound" ELSE "ok"

(***************************************************************************)
(* Capability table and Revertible.                                        *)
(***************************************************************************)
\* Faulty variant of AddonApi::get: the table is handed out without the check.
AddonApi_get_Unchecked == [ok |-> TRUE]

\* AddonApi::get(): the table once the host has stored it; panics if called
\* before initialization.
AddonApi_get == [ok |-> initialized]

\* Faulty variants of RevertClosure: the closure unsubscribes the first trampoline
\* whatever was subscribed; the closure's identifier pointer outlives its
\* string and reads as empty.
RevertClosure_FirstTrampoline(cid, callback) ==
    [identifier |-> cid, callback |-> [callback EXCEPT !.addr = 1, !.item = 1]]

RevertClosure_DanglingIdentifier(cid, callback) ==
    [identifier |-> <<0>>, callback |-> callback]

\* Faulty variant of RevertClosure: the closure reads its identifier from a
\* buffer that holds the identifier "B" by the time it runs.
RevertClosure_SharedBuffer(cid, callback) ==
    [identifier |-> <<66, 0>>, callback |-> callback]

\* The closure `move || unsubscribe(identifier.as_ptr(), callback)`: it owns
\* the converted identifier and a copy of the callback it was subscribed with.
RevertClosure(cid, callback) == [identifier |-> cid, callback |-> callback]

\* revert.into(): a Revertible holding the closure, its undo not yet consumed.
\* `subscribed` remembers the host subscribe call the Revertible was returned for.
\* `origin` numbers the subscribe that returned it; a clone keeps the number.
Revertible(closure, call) ==
    [state |-> "armed", identifier |-> closure.identifier,
     callback |-> Some(closure.callback), subscribed |-> Some(call),
     origin |-> Len(actions) + 1]

\* A Revertible whose undo has been consumed: the closure and what it owned
\* are dropped.
Reverted(a) ==
    [state |-> "reverted", identifier |-> <<>>, callback |-> None, subscribed |-> None,
     origin |-> a.origin]

\* Faulty variant of the undo closure: it calls the subscribe entry point.
RevertCall_Subscribes(a) == HostCall("subscribe", a.identifier, a.callback, None, None)

\* Running an undo closure: one host unsubscribe call with what it captured.
RevertCall(a) == HostCall("unsubscribe", a.identifier, a.callback, None, None)

\* The record of the last operation.
Op(op, identifier, callback, payload, signature, action, outcome) ==
    [op |-> op, identifier |-> identifier, callback |-> callback, payload |-> payload,
     signature |-> signature, action |-> action, undo |-> None, outcome |-> outcome,
     pre |-> registry, roundtrip |-> None]

\* A panic before any host call: nothing but the record of the operation changes.
Panics(op, identifier, callback, payload, signature, outcome) ==
    /\ last' = Op(op, identifier, callback, payload, signature, 0, outcome)
    /\ hostCalls' = <<>>
    /\ invoked' = <<>>
    /\ UNCHANGED <<initialized, unloaded, folded, registry, actions>>

(***************************************************************************)
(* Operations.                                                             *)
(***************************************************************************)
Init ==
    /\ initialized = FALSE
    /\ unloaded = FALSE
    /\ folded \in BOOLEAN
    /\ registry = <<>>
    /\ actions = <<>>
    /\ last = [op |-> "none", identifier |-> <<>>, callback |-> None, payload |-> None,
               signature |-> None, action |-> 0, undo |-> None, outcome |-> "ok",
               pre |-> <<>>, roundtrip |-> None]
    /\ hostCalls = <<>>
    /\ invoked = <<>>
    /\ tally = [subscribe |-> 0, unsubscribe |-> 0, subscribeReturns |-> 0, reverts |-> 0,
                unsubscribeCalls |-> 0, unsubscribeReturns |-> 0, operations |-> 0]
    /\ inflight = <<>>

\* The host loads the addon and stores the capability table.
HostInit ==
    /\ ~initialized
    /\ initialized' = TRUE
    /\ last' = Op("init", <<>>, None, None, None, 0, "ok")
    /\ hostCalls' = <<>>
    /\ invoked' = <<>>
    /\ UNCHANGED <<unloaded, folded, registry, actions>>

\* Faulty variant of event_subscribe_unknown: the callback is unsubscribed from
\* the identifier before it is subscribed.
event_subscribe_unknown_Resubscribing(identifier, callback) ==
    /\ ~unloaded
    /\ Len(actions) < MaxActions
    /\ LET cid == str_to_c(identifier)
       IN  IF ~cid.ok
           THEN Panics("subscribe", identifier, Some(callback), None, None, "panic_encoding")
           ELSE IF ~AddonApi_get.ok
           THEN Panics("subscribe", identifier, Some(callback), None, None, "panic_uninit")
           ELSE /\ hostCalls' = <<HostCall("unsubscribe", cid.c, Some(callback), None, None),
                                  HostCall("subscribe", cid.c, Some(callback), None, None)>>
                /\ registry' = HostApply(HostApply(registry, hostCalls'[1]), hostCalls'[2])
                /\ actions' = Append(actions, Revertible(RevertClosure(cid.c, callback),
                                                         hostCalls'[2]))
                /\ last' = Op("subscribe", identifier, Some(callback), None, None,
                              Len(actions) + 1, "ok")
                /\ invoked' = <<>>
                /\ UNCHANGED <<initialized, unloaded, folded>>

\* event_subscribe_unknown(identifier, callback)
event_subscribe_unknown(identifier, callback) ==
    /\ ~unloaded
    /\ Len(actions) < MaxActions
    /\ LET cid == str_to_c(identifier)
       IN  IF ~cid.ok
           THEN Panics("subscribe", identifier, Some(callback), None, None, "panic_encoding")
           ELSE IF ~AddonApi_get.ok
           THEN Panics("subscribe", identifier, Some(callback), None, None, "panic_uninit")
           ELSE /\ hostCalls' = <<HostCall("subscribe", cid.c, Some(callback), None, None)>>
                /\ registry' = HostApply(registry, hostCalls'[1])
                /\ actions' = Append(actions, Revertible(RevertClosure(cid.c, callback),
                                                         hostCalls'[1]))
                /\ last' = Op("subscribe", identifier, Some(callback), None, None,
                              Len(actions) + 1, "ok")
                /\ invoked' = <<>>
                /\ UNCHANGED <<initialized, unloaded, folded>>

\* event_subscribe_typed::<T>(identifier, callback)
event_subscribe_typed(identifier, callback) ==
    event_subscribe_unknown(identifier, transmute(callback))

\* Event::<T>::subscribe(&self, callback)
Event_subscribe(self, callback) ==
    event_subscribe_typed(self.identifier, callback)

\* Revertible::revert(self) on the a-th Revertible.
Revert(a) ==
    /\ ~unloaded
    /\ actions[a].state = "armed"
    /\ ~HostUnsubscribeWaits(inflight, actions[a].identifier, actions[a].callback[1])
    /\ hostCalls' = <<RevertCall(actions[a])>>
    /\ registry' = HostApply(registry, hostCalls'[1])
    /\ actions' = [actions EXCEPT ![a] = Reverted(actions[a])]
    /\ last' = [Op("revert", <<>>, None, None, None, a, "ok") EXCEPT
                  !.undo = Some(actions[a]),
                  \* the table before the subscribe, when this revert follows it at once
                  !.roundtrip = IF last.op = "subscribe" /\ last.action = a
                                THEN Some(last.pre) ELSE None]
    /\ invoked' = <<>>
    /\ UNCHANGED <<initialized, unloaded, folded>>

\* Faulty variant of event_unsubscribe: the identifier is cut at its first null byte
\* instead of being refused.
event_unsubscribe_Truncating(identifier, callback) ==
    /\ ~unloaded
    /\ LET cid == [ok |-> TRUE, c |-> Append(CStrRead(identifier), 0)]
       IN  IF ~AddonApi_get.ok
           THEN Panics("unsubscribe", identifier, Some(callback), None, None, "panic_uninit")
           ELSE /\ ~HostUnsubscribeWaits(inflight, cid.c, callback)
                /\ hostCalls' = <<HostCall("unsubscribe", cid.c, Some(callback), None, None)>>
                /\ registry' = HostApply(registry, hostCalls'[1])
                /\ last' = Op("unsubscribe", identifier, Some(callback), None, None, 0, "ok")
                /\ invoked' = <<>>
                /\ UNCHANGED <<initialized, unloaded, folded, actions>>

\* Faulty variant of event_unsubscribe: the converted identifier is dropped before
\* the host reads it, and reads as empty.
event_unsubscribe_DanglingIdentifier(identifier, callback) ==
    /\ ~unloaded
    /\ LET cid == str_to_c(identifier)
       IN  IF ~cid.ok
           THEN Panics("unsubscribe", identifier, Some(callback), None, None, "panic_encoding")
           ELSE IF ~AddonApi_get.ok
           THEN Panics("unsubscribe", identifier, Some(callback), None, None, "panic_uninit")
           ELSE /\ ~HostUnsubscribeWaits(inflight, cid.c, callback)
                /\ hostCalls' = <<HostCall("unsubscribe", <<0>>, Some(callback), None, None)>>
                /\ registry' = HostApply(registry, hostCalls'[1])
                /\ last' = Op("unsubscribe", identifier, Some(callback), None, None, 0, "ok")
                /\ invoked' = <<>>
                /\ UNCHANGED <<initialized, unloaded, folded, actions>>

\* event_unsubscribe(identifier, callback)
event_unsubscribe(identifier, callback) ==
    /\ ~unloaded
    /\ LET cid == str_to_c(identifier)
       IN  IF ~cid.ok
           THEN Panics("unsubscribe", identifier, Some(callback), None, None, "panic_encoding")
           ELSE IF ~AddonApi_get.ok
           THEN Panics("unsubscribe", identifier, Some(callback), None, None, "panic_uninit")
           ELSE /\ ~HostUnsubscribeWaits(inflight, cid.c, callback)
                /\ hostCalls' = <<HostCall("unsubscribe", cid.c, Some(callback), None, None)>>
                /\ registry' = HostApply(registry, hostCalls'[1])
                /\ last' = Op("unsubscribe", identifier, Some(callback), None, None, 0, "ok")
                /\ invoked' = <<>>
                /\ UNCHANGED <<initialized, unloaded, folded, actions>>

\* The memory a notification leaves behind its null pointer: nothing is read.
NoPayload == [ty |-> "unit", val |-> 0]

\* A raise made through the capability table: one host call, served at once.
Raises(op, identifier, payload, signature, call, mem) ==
    /\ hostCalls' = <<call>>
    /\ \E garbage \in Garbage(mem) : invoked' = HostInvoke(registry, call, mem, garbage)
    /\ last' = Op(op, identifier, None, payload, signature, 0, Outcome(invoked'))
    /\ UNCHANGED <<initialized, unloaded, folded, registry, actions>>

\* event_raise::<T>(identifier, event_data)
event_raise(identifier, event_data) ==
    /\ ~unloaded
    /\ LET cid == str_to_c(identifier)
           data == address_of(event_data)
       IN  IF ~cid.ok
           THEN Panics("raise", identifier, None, Some(event_data), None, "panic_encoding")
           ELSE IF ~AddonApi_get.ok
           THEN Panics("raise", identifier, None, Some(event_data), None, "panic_uninit")
           ELSE Raises("raise", identifier, Some(event_data), None,
                       HostCall("raise", cid.c, None, Some(cast(data)), None), event_data)

\* Faulty variant of event_raise_notification: the payload entry point is called
\* with a pointer to an empty payload.
event_raise_notification_AsRaise(identifier) ==
    /\ ~unloaded
    /\ LET cid == str_to_c(identifier)
       IN  IF ~cid.ok
           THEN Panics("raise_notification", identifier, None, None, None, "panic_encoding")
           ELSE IF ~AddonApi_get.ok
           THEN Panics("raise_notification", identifier, None, None, None, "panic_uninit")
           ELSE Raises("raise_notification", identifier, None, None,
                       HostCall("raise", cid.c, None, Some(cast(address_of(NoPayload))), None),
                       NoPayload)

\* event_raise_notification(identifier)
event_raise_notification(identifier) ==
    /\ ~unloaded
    /\ LET cid == str_to_c(identifier)
       IN  IF ~cid.ok
           THEN Panics("raise_notification", identifier, None, None, None, "panic_encoding")
           ELSE IF ~AddonApi_get.ok
           THEN Panics("raise_notification", identifier, None, None, None, "panic_uninit")
           ELSE Raises("raise_notification", identifier, None, None,
                       HostCall("raise_notification", cid.c, None, None, None), NoPayload)

\* Faulty variant of event_raise_targeted: the addon's own signature is handed
\* to the host in place of the one the caller gave.
event_raise_targeted_OwnSignature(signature, identifier, event_data) ==
    /\ ~unloaded
    /\ LET cid == str_to_c(identifier)
           data == address_of(event_data)
       IN  IF ~cid.ok
           THEN Panics("raise_targeted", identifier, None, Some(event_data),
                       Some(signature), "panic_encoding")
           ELSE IF ~AddonApi_get.ok
           THEN Panics("raise_targeted", identifier, None, Some(event_data),
                       Some(signature), "panic_uninit")
           ELSE Raises("raise_targeted", identifier, Some(event_data), Some(signature),
                       HostCall("raise_targeted", cid.c, None, Some(cast(data)),
                                Some(Addon.signature)), event_data)

\* event_raise_targeted::<T>(signature, identifier, event_data)
event_raise_targeted(signature, identifier, event_data) ==
    /\ ~unloaded
    /\ LET cid == str_to_c(identifier)
           data == address_of(event_data)
       IN  IF ~cid.ok
           THEN Panics("raise_targeted", identifier, None, Some(event_data),
                       Some(signature), "panic_encoding")
           ELSE IF ~AddonApi_get.ok
           THEN Panics("raise_targeted", identifier, None, Some(event_data),
                       Some(signature), "panic_uninit")
           ELSE Raises("raise_targeted", identifier, Some(event_data), Some(signature),
                       HostCall("raise_targeted", cid.c, None, Some(cast(data)),
                                Some(signature)), event_data)

\* Faulty variant of event_raise_notification_targeted: the broadcast entry point is
\* called and the signature is lost.
event_raise_notification_targeted_Broadcast(signature, identifier) ==
    /\ ~unloaded
    /\ LET cid == str_to_c(identifier)
       IN  IF ~cid.ok
           THEN Panics("raise_notification_targeted", identifier, None, None,
                       Some(signature), "panic_encoding")
           ELSE IF ~AddonApi_get.ok
           THEN Panics("raise_notification_targeted", identifier, None, None,
                       Some(signature), "panic_uninit")
           ELSE Raises("raise_notification_targeted", identifier, None, Some(signature),
                       HostCall("raise_notification", cid.c, None, None, None), NoPayload)

\* event_raise_notification_targeted(signature, identifier)
event_raise_notification_targeted(signature, identifier) ==
    /\ ~unloaded
    /\ LET cid == str_to_c(identifier)
       IN  IF ~cid.ok
           THEN Panics("raise_notification_targeted", identifier, None, None,
                       Some(signature), "panic_encoding")
           ELSE IF ~AddonApi_get.ok
           THEN Panics("raise_notification_targeted", identifier, None, None,
                       Some(signature), "panic_uninit")
           ELSE Raises("raise_notification_targeted", identifier, None, Some(signature),
                       HostCall("raise_notification_targeted", cid.c, None, None,
                                Some(signature)), NoPayload)

\* Event::<T>::raise(&self, event_data)
Event_raise(self, event_data) == event_raise(self.identifier, event_data)

\* The host, or another addon, raises an event with a data pointer of its own
\* choosing, null included; this addon's API is not involved.
ForeignRaise(cid, data, mem) ==
    /\ ~unloaded
    /\ hostCalls' = <<>>
    /\ \E garbage \in Garbage(mem) :
          invoked' = HostRaise(registry, cid, None, data, mem, garbage)
    /\ last' = Op("foreign_raise", CStrRead(cid), None,
                  IF data.addr = 0 THEN None ELSE Some(mem), None, 0, Outcome(invoked'))
    /\ UNCHANGED <<initialized, unloaded, folded, registry, actions>>

\* Revertible::revert_on_unload(self): the undo is handed to the unload lifecycle.
RevertOnUnload(a) ==
    /\ ~unloaded
    /\ actions[a].state = "armed"
    /\ actions' = [actions EXCEPT ![a].state = "registered"]
    /\ last' = Op("revert_on_unload", <<>>, None, None, None, a, "ok")
    /\ hostCalls' = <<>>
    /\ invoked' = <<>>
    /\ UNCHANGED <<initialized, unloaded, folded, registry>>

\* The undo closures registered for unload, in order of registration.
RECURSIVE UnloadCalls(_)
UnloadCalls(acts) ==
    IF acts = <<>> THEN <<>>
    ELSE (IF Head(acts).state = "registered" THEN <<RevertCall(Head(acts))>> ELSE <<>>)
         \o UnloadCalls(Tail(acts))

RECURSIVE HostApplyAll(_, _)
HostApplyAll(reg, calls) ==
    IF calls = <<>> THEN reg ELSE HostApplyAll(HostApply(reg, Head(calls)), Tail(calls))

\* The addon is unloaded: every registered undo runs once.
AddonUnload ==
    /\ initialized
    /\ ~unloaded
    /\ unloaded' = TRUE
    /\ hostCalls' = UnloadCalls(actions)
    /\ registry' = HostApplyAll(registry, hostCalls')
    /\ actions' = [a \in DOMAIN actions |->
                     IF actions[a].state = "registered" THEN Reverted(actions[a])
                     ELSE actions[a]]
    /\ last' = [Op("unload", <<>>, None, None, None, 0, "ok") EXCEPT
                  \* the Revertibles whose undo the unload runs
                  !.undo = SelectSeq(actions, LAMBDA a : a.state = "registered")]
    /\ invoked' = <<>>
    /\ UNCHANGED <<initialized, folded>>

\* Clone of the a-th Revertible: its closure is `impl Fn() + Send + Sync +
\* Clone`, so the copy owns the same identifier and callback and undoes the
\* same subscription.
Revertible_clone(a) ==
    /\ ~unloaded
    /\ actions[a].state = "armed"
    /\ Len(actions) < MaxActions
    /\ actions' = Append(actions, actions[a])
    /\ last' = Op("clone", <<>>, None, None, None, a, "ok")
    /\ hostCalls' = <<>>
    /\ invoked' = <<>>
    /\ UNCHANGED <<initialized, unloaded, folded, registry>>

\* Typed events of the addon: identifier and payload type.
Events == { [identifier |-> i, ty |-> "i32"] : i \in Identifiers }

\* Identifiers as the host holds them.
HostIdentifiers == { str_to_c(i).c : i \in { j \in Identifiers : str_to_c(j).ok } }

\* The counters and the host threads are left alone.
Idle == UNCHANGED <<tally, inflight>>

Next ==
    \/ HostInit /\ Idle
    \/ \E i \in Identifiers, s \in Sites :
          event_subscribe_unknown(i, transmute(event_consume(s))) /\ Idle
    \/ \E i \in Identifiers, s \in Sites : event_subscribe_typed(i, event_consume(s)) /\ Idle
    \/ \E e \in Events, s \in Sites : Event_subscribe(e, event_consume(s)) /\ Idle
    \/ \E a \in DOMAIN actions : Revert(a) /\ Idle
    \/ \E i \in Identifiers, s \in Sites :
          event_unsubscribe(i, transmute(event_consume(s))) /\ Idle
    \/ \E i \in Identifiers, p \in Payloads : event_raise(i, p) /\ Idle
    \/ \E e \in Events, p \in Payloads : Event_raise(e, p) /\ Idle
    \/ \E i \in Identifiers : event_raise_notification(i) /\ Idle
    \/ \E g \in Signatures, i \in Identifiers, p \in TargetedPayloads :
          event_raise_targeted(g, i, p) /\ Idle
    \/ \E g \in Signatures, i \in Identifiers :
          event_raise_notification_targeted(g, i) /\ Idle
    \/ \E c \in HostIdentifiers, p \in TargetedPayloads :
          ForeignRaise(c, address_of(p), p) /\ Idle
    \/ \E c \in HostIdentifiers : ForeignRaise(c, NullPtr, NoPayload) /\ Idle

Spec == Init /\ [][Next]_vars

(***************************************************************************)
(* The three ways to subscribe, side by side.                              *)
(***************************************************************************)
NextSubscribe ==
    \/ HostInit /\ Idle
    \/ \E i \in Identifiers, s \in Sites :
          event_subscribe_unknown(i, transmute(event_consume(s))) /\ Idle
    \/ \E i \in Identifiers, s \in Sites : event_subscribe_typed(i, event_consume(s)) /\ Idle
    \/ \E e \in Events, s \in Sites : Event_subscribe(e, event_consume(s)) /\ Idle
    \/ \E a \in DOMAIN actions : Revert(a) /\ Idle

SpecSubscribe == Init /\ [][NextSubscribe]_vars

(***************************************************************************)
(* The life of a Revertible: subscribe, clone, revert, revert_on_unload,   *)
(* unload.                                                                 *)
(***************************************************************************)
LifecycleIdentifiers == { <<65>>, <<66>> }

LifecycleSites == { 1, 3 }

NextLifecycle ==
    \/ HostInit /\ Idle
    \/ \E i \in LifecycleIdentifiers, s \in LifecycleSites :
          event_subscribe_unknown(i, transmute(event_consume(s))) /\ Idle
    \/ \E a \in DOMAIN actions : Revertible_clone(a) /\ Idle
    \/ \E a \in DOMAIN actions : Revert(a) /\ Idle
    \/ \E a \in DOMAIN actions : RevertOnUnload(a) /\ Idle
    \/ AddonUnload /\ Idle

SpecLifecycle == Init /\ [][NextLifecycle]_vars

(***************************************************************************)
(* The host calling trampolines from its own threads while the addon       *)
(* subscribes and reverts.                                                 *)
(***************************************************************************)
MaxInFlight == 2

\* A host thread reads the i-th subscriber from the table and enters its
\* trampoline.
HostBeginInvoke(i) ==
    /\ ~unloaded
    /\ Len(inflight) < MaxInFlight
    /\ inflight' = Append(inflight, [identifier |-> registry[i].identifier,
                                      callback |-> registry[i].callback.addr])
    /\ UNCHANGED <<initialized, unloaded, folded, registry, actions, last, hostCalls,
                   invoked, tally>>

\* The k-th running trampoline returns to the host thread that called it.
HostEndInvoke(k) ==
    /\ inflight' = SubSeq(inflight, 1, k - 1) \o SubSeq(inflight, k + 1, Len(inflight))
    /\ UNCHANGED <<initialized, unloaded, folded, registry, actions, last, hostCalls,
                   invoked, tally>>

NextConcurrent ==
    \/ HostInit /\ Idle
    \/ \E i \in LifecycleIdentifiers, s \in LifecycleSites :
          event_subscribe_unknown(i, transmute(event_consume(s))) /\ Idle
    \/ \E a \in DOMAIN actions : Revert(a) /\ Idle
    \/ \E i \in DOMAIN registry : HostBeginInvoke(i)
    \/ \E k \in DOMAIN inflight : HostEndInvoke(k)

SpecConcurrent == Init /\ [][NextConcurrent]_vars

(***************************************************************************)
(* Counting the calls made over a run of operations.                       *)
(***************************************************************************)
MaxCalls == 5

CountIdentifiers == { <<65>>, <<65, 0, 66>> }

\* How many of the calls name a host entry point.
CallsOf(calls, fn) == Cardinality({ k \in DOMAIN calls : calls[k].fn = fn })

\* The counters after an operation, from its record and the host calls it
\* made. The unload runs the `revert` closure of every registered Revertible.
Count(t, op, calls) ==
    [subscribe |-> t.subscribe + CallsOf(calls, "subscribe"),
     unsubscribe |-> t.unsubscribe + CallsOf(calls, "unsubscribe"),
     subscribeReturns |->
         t.subscribeReturns + (IF op.op = "subscribe" /\ op.outcome = "ok" THEN 1 ELSE 0),
     reverts |-> t.reverts + (IF op.op = "revert" THEN 1
                              ELSE IF op.op = "unload" THEN Len(op.undo) ELSE 0),
     unsubscribeCalls |-> t.unsubscribeCalls + (IF op.op = "unsubscribe" THEN 1 ELSE 0),
     unsubscribeReturns |->
         t.unsubscribeReturns + (IF op.op = "unsubscribe" /\ op.outcome = "ok" THEN 1 ELSE 0),
     operations |-> t.operations + 1]

Counted ==
    /\ tally.operations < MaxCalls
    /\ tally' = Count(tally, last', hostCalls')
    /\ UNCHANGED inflight

NextCount ==
    \/ HostInit /\ Counted
    \/ \E i \in CountIdentifiers : event_subscribe_unknown(i, transmute(event_consume(1))) /\ Counted
    \/ \E i \in CountIdentifiers : event_unsubscribe(i, transmute(event_consume(1))) /\ Counted
    \/ \E a \in DOMAIN actions : Revertible_clone(a) /\ Counted
    \/ \E a \in DOMAIN actions : Revert(a) /\ Counted
    \/ \E a \in DOMAIN actions : RevertOnUnload(a) /\ Counted
    \/ AddonUnload /\ Counted

SpecCount == Init /\ [][NextCount]_vars

(***************************************************************************)
(* Properties.                                                             *)
(***************************************************************************)
\* The host's subscriptions of one (identifier, callback pointer) pair.
OfPair(e, cid, callback) ==
    e.identifier = CStrRead(cid) /\ e.callback.addr = callback.addr

\* reg without the entries of one (identifier, callback pointer) pair.
WithoutPair(reg, cid, callback) ==
    SelectSeq(reg, LAMBDA e : ~OfPair(e, cid, callback))

ApiOps == { "subscribe", "unsubscribe" } \cup RaiseFns

C2_RoundTripAlways ==
    (last.op = "revert" /\ last.roundtrip # None) => registry = last.roundtrip[1]

\* C2 amended: a subscribe followed at once by the revert of the action it
\* returned leaves the host table as it was before the subscribe, provided the
\* callback was not already subscribed to that identifier.
C2_RoundTripWhenFresh ==
    (last.op = "revert" /\ last.roundtrip # None) =>
        LET sub == last.undo[1].subscribed[1]
        IN  (\A i \in DOMAIN last.roundtrip[1] :
                ~OfPair(last.roundtrip[1][i], sub.identifier, sub.callback[1]))
            => registry = last.roundtrip[1]

\* A round trip made on a table that held another subscription.
C2_Witness ==
    /\ last.op = "revert"
    /\ last.roundtrip # None
    /\ Len(last.roundtrip[1]) = 1
    /\ registry = last.roundtrip[1]

\* The table entries of an identifier, as the host reads it.
EntriesOf(reg, hostId) == { i \in DOMAIN reg : reg[i].identifier = hostId }

\* Whether the last operation invoked a callback pointer with an argument.
Observed(addr, arg) ==
    \E k \in DOMAIN invoked : invoked[k].callback = addr /\ invoked[k].arg = arg

\* C3 as stated: trampolines of different expansion sites have different
\* callback identities; reverting the subscription of one never removes the
\* subscription of another on the same identifier, and a later raise on the
\* identifier still invokes every remaining one with the raised payload.
C3_DistinctTrampolines ==
    /\ \A i, j \in DOMAIN registry :
          registry[i].callback.item # registry[j].callback.item
              => registry[i].callback.addr # registry[j].callback.addr
    /\ last.op = "revert" =>
          \A i \in DOMAIN last.pre :
              last.pre[i].callback.item # last.undo[1].callback[1].item
                  => \E j \in DOMAIN registry : registry[j] = last.pre[i]
    /\ (last.op = "raise" /\ last.outcome = "ok" /\ last.payload[1].ty = "i32") =>
          \A i \in EntriesOf(registry, last.identifier) :
              Observed(registry[i].callback.addr, Some(last.payload[1].val))

\* C4: a raise delivers the raised value to every subscriber of the
\* identifier and invokes nobody else; a revert leaves no subscription of its
\* (identifier, callback) pair in the host table; and a pair enters the table
\* only by a subscribe of that pair. So after a revert no raise invokes the
\* subscriber again until it is subscribed again.
C4_RevertEndsDelivery ==
    /\ (last.op = "raise" /\ last.outcome = "ok" /\ last.payload[1].ty = "i32") =>
          \A i \in EntriesOf(registry, last.identifier) :
              Observed(registry[i].callback.addr, Some(last.payload[1].val))
    /\ \A k \in DOMAIN invoked :
          /\ last.op \in RaiseFns \cup { "foreign_raise" }
          /\ \E i \in EntriesOf(registry, last.identifier) :
                registry[i].callback.addr = invoked[k].callback
    /\ last.op = "revert" =>
          \A i \in DOMAIN registry :
              ~OfPair(registry[i], last.undo[1].identifier, last.undo[1].callback[1])
    /\ \A i \in DOMAIN registry :
          (\A j \in DOMAIN last.pre :
              ~(last.pre[j].identifier = registry[i].identifier
                /\ last.pre[j].callback.addr = registry[i].callback.addr))
          => /\ last.op = "subscribe"
             /\ OfPair(registry[i], hostCalls[1].identifier, hostCalls[1].callback[1])

\* A raise after a revert: the Revertible is consumed and the raise reached
\* the one subscriber that is left.
C4_Witness ==
    /\ last.op = "raise"
    /\ last.outcome = "ok"
    /\ Len(actions) = 2
    /\ \E a \in DOMAIN actions : actions[a].state = "reverted"
    /\ Len(invoked) = 1
    /\ invoked[1].arg = Some(43)

\* C5: when a value v of type T is raised with event_raise or
\* event_raise_targeted, every trampoline of payload type T the host invokes
\* observes exactly Some(v), and a plain raise reaches every subscriber of
\* the identifier.
C5_PayloadIntact ==
    (last.op \in { "raise", "raise_targeted" } /\ last.outcome \in { "ok", "unwound" }) =>
        /\ \A k \in DOMAIN invoked :
              SiteTy(CodeAt(invoked[k].callback)) = last.payload[1].ty
                  => invoked[k].arg = Some(last.payload[1].val)
        /\ (last.op = "raise" /\ last.payload[1].ty = "i32") =>
              \A i \in EntriesOf(registry, last.identifier) :
                  Observed(registry[i].callback.addr, Some(last.payload[1].val))

\* A raise of 43 that two subscribers observed.
C5_Witness ==
    /\ last.op = "raise"
    /\ Len(invoked) = 2
    /\ \A k \in DOMAIN invoked : invoked[k].arg = Some(43)

\* C6: a trampoline passes None to the user callback exactly when the host
\* invoked it with a null pointer, and Some otherwise; a notification raise
\* invokes its subscribers with a null pointer.
C6_NullIsNone ==
    /\ \A k \in DOMAIN invoked : (invoked[k].arg = None) <=> (invoked[k].data.addr = 0)
    /\ last.op \in { "raise_notification", "raise_notification_targeted" } =>
          \A k \in DOMAIN invoked : invoked[k].arg = None

\* A notification that reached a subscriber.
C6_Witness ==
    /\ last.op = "raise_notification"
    /\ invoked # <<>>
    /\ invoked[1].arg = None

\* C7: a subscribe, unsubscribe or raise whose identifier text holds a null
\* byte panics in the conversion: no host entry point is called, no callback
\* is invoked, no Revertible is returned and the host table is unchanged.
C7_EmbeddedNulRefused ==
    (last.op \in ApiOps /\ 0 \in Range(last.identifier)) =>
        /\ last.outcome = "panic_encoding"
        /\ hostCalls = <<>>
        /\ invoked = <<>>
        /\ last.action = 0
        /\ registry = last.pre

\* An unsubscribe with "A\0B" refused while the callback is subscribed to "A".
C7_Witness ==
    /\ last.op = "unsubscribe"
    /\ 0 \in Range(last.identifier)
    /\ initialized
    /\ \E i \in DOMAIN registry :
          /\ registry[i].identifier = CStrRead(last.identifier)
          /\ registry[i].callback.addr = last.callback[1].addr

\* C8: before the host has stored the capability table every subscribe,
\* unsubscribe and raise panics: no host entry point is called, the host table
\* holds no subscription and no Revertible exists.
C8_UninitializedAborts ==
    ~initialized =>
        /\ last.op \in ApiOps => last.outcome \in { "panic_uninit", "panic_encoding" }
        /\ (last.op \in ApiOps /\ 0 \notin Range(last.identifier))
              => last.outcome = "panic_uninit"
        /\ hostCalls = <<>>
        /\ registry = <<>>
        /\ actions = <<>>
        /\ last.action = 0

\* A subscribe with a valid identifier made before initialization.
C8_Witness ==
    /\ ~initialized
    /\ last.op = "subscribe"
    /\ last.outcome = "panic_uninit"

\* C9 as stated: a panic of the user callback stays inside the trampoline.
C9_PanicContained ==
    \A k \in DOMAIN invoked : invoked[k].panicked => invoked[k].result = "returned"

\* C9 amended: a panic of the user callback is not caught by the trampoline;
\* it unwinds out of the trampoline into the host code that invoked it, and a
\* trampoline unwinds only when its callback panicked.
C9_PanicUnwindsIntoHost ==
    /\ \A k \in DOMAIN invoked : invoked[k].panicked <=> invoked[k].result = "unwound"
    /\ (\E k \in DOMAIN invoked : invoked[k].panicked) <=> last.outcome = "unwound"

\* A callback that panicked on an absent payload.
C9_Witness ==
    \E k \in DOMAIN invoked : invoked[k].panicked /\ invoked[k].arg = None

\* C10: a raise of any of the four kinds, made with a valid identifier after
\* initialization, makes exactly one host call, to the entry point of its
\* kind, with the identifier, the address of the payload and the signature it
\* was given; callbacks are invoked only while a raise is being served.
C10_RaisePassThrough ==
    /\ (last.op \in RaiseFns /\ 0 \notin Range(last.identifier) /\ initialized) =>
          /\ last.outcome \in { "ok", "unwound" }
          /\ Len(hostCalls) = 1
          /\ hostCalls[1].fn = last.op
          /\ hostCalls[1].identifier = Append(last.identifier, 0)
          /\ hostCalls[1].signature = last.signature
          /\ hostCalls[1].callback = None
          /\ IF last.payload = None THEN hostCalls[1].data = None
             ELSE /\ hostCalls[1].data # None
                  /\ hostCalls[1].data[1].addr = address_of(last.payload[1]).addr
          /\ last.op \in { "raise_targeted", "raise_notification_targeted" }
                <=> last.signature # None
          /\ last.op \in { "raise", "raise_targeted" } <=> last.payload # None
    /\ last.op \notin RaiseFns \cup { "foreign_raise" } => invoked = <<>>

\* A targeted raise that reached a subscriber.
C10_Witness ==
    /\ last.op = "raise_targeted"
    /\ last.outcome = "ok"
    /\ Len(hostCalls) = 1
    /\ invoked # <<>>

TargetedFns == { "raise_targeted", "raise_notification_targeted" }

\* The subscribers of an identifier that carry a signature.
Tagged(reg, hostId, signature) ==
    { i \in EntriesOf(reg, hostId) : reg[i].signature = signature }

\* C11: a targeted raise hands the host the signature the caller gave, and
\* every callback invoked during it belongs to a subscriber of the identifier
\* tagged with that signature: when no subscriber carries the signature,
\* nothing is invoked, whatever else is subscribed to the identifier.
C11_TargetedReachesOnlyRecipient ==
    (last.op \in TargetedFns /\ last.outcome \in { "ok", "unwound" }) =>
        LET s == last.signature[1]
        IN  /\ Len(hostCalls) = 1
            /\ hostCalls[1].fn = last.op
            /\ hostCalls[1].signature = Some(s)
            /\ Len(invoked) <= Cardinality(Tagged(registry, last.identifier, s))
            /\ \A k \in DOMAIN invoked :
                  \E i \in Tagged(registry, last.identifier, s) :
                      registry[i].callback.addr = invoked[k].callback

\* A targeted raise addressed to another signature than the one the
\* identifier's subscriber is tagged with: the subscriber is not invoked.
C11_Witness ==
    /\ last.op = "raise_targeted"
    /\ last.outcome = "ok"
    /\ last.signature = Some(5678)
    /\ Tagged(registry, last.identifier, 1234) # {}
    /\ invoked = <<>>

\* C12: a notification raise made after initialization, on a valid identifier
\* that has no subscriber, returns normally after its one host call
\* raise_notification(identifier); no callback is invoked and the host's
\* subscriber table is the one from before the raise.
C12_NotificationWithoutSubscribers ==
    (/\ last.op = "raise_notification"
     /\ initialized
     /\ str_to_c(last.identifier).ok
     /\ EntriesOf(last.pre, last.identifier) = {}) =>
        /\ last.outcome = "ok"
        /\ invoked = <<>>
        /\ registry = last.pre
        /\ hostCalls = <<HostCall("raise_notification", str_to_c(last.identifier).c,
                                  None, None, None)>>

\* A notification raised on an identifier without subscribers while another
\* identifier has one.
C12_Witness ==
    /\ last.op = "raise_notification"
    /\ last.outcome = "ok"
    /\ EntriesOf(last.pre, last.identifier) = {}
    /\ last.pre # <<>>
    /\ registry = last.pre
    /\ invoked = <<>>

\* Whether the undo of a Revertible is still to run.
Armed(a) == a.state \in { "armed", "registered" }

\* The Revertibles that stem from one subscribe and whose undo has run.
UndoneOf(origin) ==
    { a \in DOMAIN actions : actions[a].origin = origin /\ actions[a].state = "reverted" }

UndoCalls(calls, sub) ==
    { k \in DOMAIN calls : /\ calls[k].fn = "unsubscribe"
                            /\ calls[k].identifier = sub.identifier
                            /\ calls[k].callback = sub.callback }

Erased(site) == [addr |-> FnAddr(site), arg |-> "c_void", item |-> site]

\* C15: every step that subscribes is a step of event_subscribe_unknown with
\* the erased pointer of some trampoline, and for every trampoline a step is
\* one of event_subscribe_typed, or of Event::subscribe, with the typed
\* pointer exactly when it is one of event_subscribe_unknown with the erased
\* pointer: the three make the same host call, leave the same subscriber
\* table and return the same Revertible.
C15_ErasureKeepsIdentity ==
    [][last'.op = "subscribe" =>
          LET i == last'.identifier
          IN  /\ \E s \in Sites : event_subscribe_unknown(i, Erased(s))
              /\ \A s \in Sites :
                    /\ event_subscribe_typed(i, event_consume(s))
                          <=> event_subscribe_unknown(i, Erased(s))
                    /\ Event_subscribe([identifier |-> i, ty |-> SiteTy(s)], event_consume(s))
                          <=> event_subscribe_unknown(i, Erased(s))
      ]_vars

\* A subscribe that handed the host the erased pointer of a typed trampoline,
\* at the trampoline's own address.
C15_Witness ==
    /\ last.op = "subscribe"
    /\ last.outcome = "ok"
    /\ Len(registry) = Len(last.pre) + 1
    /\ \E s \in Sites :
          /\ hostCalls[1].callback = Some(Erased(s))
          /\ hostCalls[1].callback[1].addr = event_consume(s).addr
          /\ registry[Len(registry)].callback = Erased(s)
          /\ actions[last.action].callback = Some(Erased(s))

\* The running trampolines of one (identifier, callback pointer) pair.
Running(cid, callback) ==
    { k \in DOMAIN inflight : /\ inflight[k].identifier = CStrRead(cid)
                               /\ inflight[k].callback = callback.addr }

UnsubscribeEffect(pre, identifier, callback) ==
    [calls |-> <<[fn |-> "unsubscribe", identifier |-> Append(identifier, 0),
                  callback |-> Some(callback), data |-> None, signature |-> None]>>,
     registry |-> WithoutPair(pre, Append(identifier, 0), callback)]

\* C17: event_unsubscribe(identifier, callback) that returns, and the revert
\* of the Revertible that event_subscribe_unknown(identifier, callback)
\* returned, have the same effect on the host: one unsubscribe call with the
\* converted identifier and the callback, which leaves the table without the
\* subscriptions of that pair.
C17_UnsubscribeIsRevert ==
    /\ (last.op = "unsubscribe" /\ last.outcome = "ok") =>
           [calls |-> hostCalls, registry |-> registry]
               = UnsubscribeEffect(last.pre, last.identifier, last.callback[1])
    /\ last.op = "revert" =>
           LET sub == last.undo[1].subscribed[1]
           IN  /\ sub.fn = "subscribe"
               /\ [calls |-> hostCalls, registry |-> registry]
                     = UnsubscribeEffect(last.pre, CStrRead(sub.identifier), sub.callback[1])

\* event_unsubscribe has removed the subscription of a Revertible that is
\* still armed, as the revert of that Revertible would have.
C17_Witness ==
    /\ last.op = "unsubscribe"
    /\ last.outcome = "ok"
    /\ Len(registry) < Len(last.pre)
    /\ \E a \in DOMAIN actions :
          /\ actions[a].state = "armed"
          /\ actions[a].identifier = Append(last.identifier, 0)
          /\ actions[a].callback = last.callback
          /\ registry = WithoutPair(last.pre, actions[a].identifier, actions[a].callback[1])

\* C18 as stated: the host unsubscribe calls are as many as the invocations
\* of a revert closure and the calls of event_unsubscribe together.
C18_UnsubscribesAreRevertsAndCalls ==
    tally.unsubscribe = tally.reverts + tally.unsubscribeCalls

\* C18: a subscribe that returns has made one host call, subscribe, and its
\* Revertible was built after that call and for it; the host subscribe calls
\* are as many as the subscribes that returned; the host unsubscribe calls
\* are as many as the invocations of a revert closure and the calls of
\* event_unsubscribe that returned together.
C18_CallsBalance ==
    /\ (last.op = "subscribe" /\ last.outcome = "ok") =>
           /\ Len(hostCalls) = 1
           /\ hostCalls[1].fn = "subscribe"
           /\ actions[last.action].subscribed = Some(hostCalls[1])
    /\ tally.subscribe = tally.subscribeReturns
    /\ tally.unsubscribe = tally.reverts + tally.unsubscribeReturns

\* A run in which a subscribe, a revert and an event_unsubscribe have all
\* returned, and another event_unsubscribe has panicked.
C18_Witness ==
    /\ tally.subscribeReturns >= 1
    /\ tally.reverts >= 1
    /\ tally.unsubscribeReturns >= 1
    /\ tally.unsubscribeCalls > tally.unsubscribeReturns
    /\ tally.unsubscribe = 2

\* The subscriptions of one identifier, in the host's order.
OfIdentifier(reg, hostId) == SelectSeq(reg, LAMBDA e : e.identifier = hostId)

\* The identifiers that have a subscriber before or after the last operation.
Subscribed == { e.identifier : e \in Range(last.pre) \cup Range(registry) }

\* C19: a raise of any of the four kinds, whether it returns, unwinds or
\* panics, leaves the host's subscriber table as it was; a subscribe or a
\* revert leaves the subscriptions of every identifier other than its own as
\* they were.
C19_Frame ==
    /\ last.op \in RaiseFns => registry = last.pre
    /\ last.op = "subscribe" =>
           \A h \in Subscribed \ { last.identifier } :
               OfIdentifier(registry, h) = OfIdentifier(last.pre, h)
    /\ last.op = "revert" =>
           \A h \in Subscribed \ { CStrRead(last.undo[1].subscribed[1].identifier) } :
               OfIdentifier(registry, h) = OfIdentifier(last.pre, h)

\* A revert on one identifier has removed its subscription while the same
\* callback stays subscribed to another identifier.
C19_Witness ==
    /\ last.op = "revert"
    /\ Len(last.pre) = 2
    /\ Len(registry) = 1
    /\ registry[1].identifier # CStrRead(last.undo[1].subscribed[1].identifier)
    /\ registry[1].callback.addr = last.undo[1].subscribed[1].callback[1].addr

====
